---- MODULE Spec2Model ----
(***************************************************************************)
(* The typestate request builder of src/main.rs.                           *)
(*                                                                         *)
(* A RequestBuilder<U, M, B> value is a record of its four fields.  The    *)
(* type parameters U, M and B are read off the values of the fields url,   *)
(* method and body: each marker struct is a tagged tuple, so that the tag  *)
(* of a field IS the type state of its slot.  An impl block's type         *)
(* pattern (impl<U, B> RequestBuilder<U, MissingMethod, B>) becomes the    *)
(* guard of the actions that call its methods.  Every method takes self   *)
(* by value, so there is one live builder value at a time; build returns a *)
(* Request and no builder, which leaves no live builder behind.            *)
(***************************************************************************)
EXTENDS Integers, Sequences, FiniteSets, TLC

VARIABLES
    builder,   \* the live RequestBuilder value (fields url, method, headers, body)
    moved,     \* TRUE once build(self) has taken the builder by value
    req,       \* the Request returned by build, NoRequest before
    calls      \* the method calls made so far on the chain, in order

vars == <<builder, moved, req, calls>>

----------------------------------------------------------------------------
(* Bounds and input domains *)

MaxHeaders == 2
MaxUrlCalls == 2

UrlTexts == {"", "https://www.google.com"}
BodyTexts == {"", "asdf"}
HeaderKeys == {"Token", "user-agent"}
HeaderValues == {"zxcvasdv"}

----------------------------------------------------------------------------
(* The state marker types and the values of the fields *)

MissingUrl == <<"MissingUrl">>
Url(s) == <<"Url", s>>

MissingMethod == "MissingMethod"
GET == "GET"
POST == "POST"
Method == {GET, POST}

MissingBody == <<"MissingBody">>
NoBody == <<"NoBody">>
None == <<"None">>
Some(s) == <<"Some", s>>
Body(o) == <<"Body", o>>

NoRequest == <<"NoRequest">>

\* Request { url, method, headers, body }
Request(u, m, h, b) == <<"Request", [url |-> u, method |-> m, headers |-> h, body |-> b]>>

\* RequestBuilder { url, method, headers, body }
RequestBuilder(u, m, h, b) == [url |-> u, method |-> m, headers |-> h, body |-> b]

----------------------------------------------------------------------------
(* The methods, as functions from the builder taken by value to the value  *)
(* returned                                                                *)

\* the URL slot starts at Url::default(), which is Url(String::default())
new_DefaultUrl == RequestBuilder(Url(""), MissingMethod, <<>>, MissingBody)

\* RequestBuilder::default() at <MissingUrl, MissingMethod, MissingBody>
new == RequestBuilder(MissingUrl, MissingMethod, <<>>, MissingBody)

\* first write wins: an already set URL is kept
url_FirstWriteWins(self, u) ==
    RequestBuilder(IF self.url[1] = "Url" THEN self.url ELSE Url(u),
                   self.method, self.headers, self.body)

\* headers: Vec::new() in place of headers: self.headers
url_DropHeaders(self, u) == RequestBuilder(Url(u), self.method, <<>>, self.body)

url(self, u) == RequestBuilder(Url(u), self.method, self.headers, self.body)

\* map semantics: a repeated key overwrites the entry that has it
header_ReplaceKey(self, key, value) ==
    RequestBuilder(self.url, self.method,
                   IF \E i \in DOMAIN self.headers : self.headers[i][1] = key
                   THEN [i \in DOMAIN self.headers |->
                            IF self.headers[i][1] = key THEN <<key, value>>
                            ELSE self.headers[i]]
                   ELSE Append(self.headers, <<key, value>>),
                   self.body)

\* self.headers.insert(0, ..) in place of push
header_Prepend(self, key, value) ==
    RequestBuilder(self.url, self.method, <<(<<key, value>>)>> \o self.headers, self.body)

header(self, key, value) ==
    RequestBuilder(self.url, self.method, Append(self.headers, <<key, value>>), self.body)

\* body: self.body, as in post
get_KeepBody(self) == RequestBuilder(self.url, GET, self.headers, self.body)

get(self) == RequestBuilder(self.url, GET, self.headers, NoBody)

\* body: MissingBody in place of body: self.body
post_ResetBody(self) == RequestBuilder(self.url, POST, self.headers, MissingBody)

\* body: NoBody, as in get
post_NoBody(self) == RequestBuilder(self.url, POST, self.headers, NoBody)

post(self) == RequestBuilder(self.url, POST, self.headers, self.body)

\* Body::default(), which is Body(None), in place of Body(Some(body.into()))
body_Default(self, b) == RequestBuilder(self.url, self.method, self.headers, Body(None))

body(self, b) == RequestBuilder(self.url, self.method, self.headers, Body(Some(b)))

\* impl RequestBuilder<Url, Method, Body>
build_Body(self) == Request(self.url[2], self.method, self.headers, self.body[2])
\* impl RequestBuilder<Url, Method, NoBody>
build_NoBody(self) == Request(self.url[2], self.method, self.headers, None)
\* body: Some(String::default())
build_MissingBody_SomeEmpty(self) ==
    Request(self.url[2], self.method, self.headers, Some(""))

\* impl RequestBuilder<Url, Method, MissingBody>
build_MissingBody(self) == Request(self.url[2], self.method, self.headers, None)

----------------------------------------------------------------------------
(* The type states: which impl block a builder value belongs to *)

IsUrl(self) == self.url[1] = "Url"
IsMissingMethod(self) == self.method = MissingMethod
IsMethod(self) == self.method \in Method
IsMissingBody(self) == self.body = MissingBody
IsNoBody(self) == self.body = NoBody
IsBody(self) == self.body[1] = "Body"

----------------------------------------------------------------------------
(* Counting calls in the log, for the bounds *)

RECURSIVE CountOp(_, _)
CountOp(log, op) ==
    IF log = <<>> THEN 0
    ELSE (IF Head(log)[1] = op THEN 1 ELSE 0) + CountOp(Tail(log), op)

----------------------------------------------------------------------------
(* The calls *)

Init ==
    /\ builder = new
    /\ moved = FALSE
    /\ req = NoRequest
    /\ calls = <<>>

\* impl<U, M, B> RequestBuilder<U, M, B>: any type state
CallUrl ==
    /\ ~moved
    /\ CountOp(calls, "url") < MaxUrlCalls
    /\ \E u \in UrlTexts :
        /\ builder' = url(builder, u)
        /\ calls' = Append(calls, <<"url", u>>)
    /\ UNCHANGED <<moved, req>>

CallHeader ==
    /\ ~moved
    /\ CountOp(calls, "header") < MaxHeaders
    /\ \E key \in HeaderKeys, value \in HeaderValues :
        /\ builder' = header(builder, key, value)
        /\ calls' = Append(calls, <<"header", key, value>>)
    /\ UNCHANGED <<moved, req>>

\* get offered in impl<B> RequestBuilder<Url, MissingMethod, B>: only once
\* the URL is set
CallGet_NeedsUrl ==
    /\ ~moved
    /\ builder.url[1] = "Url"
    /\ builder.method = MissingMethod
    /\ builder' = get(builder)
    /\ calls' = Append(calls, <<"get">>)
    /\ UNCHANGED <<moved, req>>

\* impl<U, B> RequestBuilder<U, MissingMethod, B>
CallGet ==
    /\ ~moved
    /\ IsMissingMethod(builder)
    /\ builder' = get(builder)
    /\ calls' = Append(calls, <<"get">>)
    /\ UNCHANGED <<moved, req>>

\* post offered in impl<U, M, B>, whatever the method slot
CallPost_AnyMethod ==
    /\ ~moved
    /\ builder' = post(builder)
    /\ calls' = Append(calls, <<"post">>)
    /\ UNCHANGED <<moved, req>>

CallPost ==
    /\ ~moved
    /\ IsMissingMethod(builder)
    /\ builder' = post(builder)
    /\ calls' = Append(calls, <<"post">>)
    /\ UNCHANGED <<moved, req>>

\* body offered in impl<U> RequestBuilder<U, Method, MissingBody>: only once
\* a method has been chosen
CallBody_NeedsMethod ==
    /\ ~moved
    /\ builder.method \in Method
    /\ builder.body = MissingBody
    /\ \E b \in BodyTexts :
        /\ builder' = body(builder, b)
        /\ calls' = Append(calls, <<"body", b>>)
    /\ UNCHANGED <<moved, req>>

\* body offered in impl<U, M, B>, whatever the body slot
CallBody_AnyBody ==
    /\ ~moved
    /\ \E b \in BodyTexts :
        /\ builder' = body(builder, b)
        /\ calls' = Append(calls, <<"body", b>>)
    /\ UNCHANGED <<moved, req>>

\* body offered in every state and checked when called: a body slot that is
\* not MissingBody gives an error value in place of a builder
CallBody_RuntimeChecked ==
    /\ ~moved
    /\ \E b \in BodyTexts :
        /\ builder' = IF builder.body = MissingBody THEN body(builder, b)
                       ELSE [builder EXCEPT !.body = <<"IllegalBuilderState">>]
        /\ calls' = Append(calls, <<"body", b>>)
    /\ UNCHANGED <<moved, req>>

\* impl<U, M> RequestBuilder<U, M, MissingBody>
CallBody ==
    /\ ~moved
    /\ IsMissingBody(builder)
    /\ \E b \in BodyTexts :
        /\ builder' = body(builder, b)
        /\ calls' = Append(calls, <<"body", b>>)
    /\ UNCHANGED <<moved, req>>

\* build offered in impl<U> RequestBuilder<U, Method, B>: the URL slot is
\* not looked at, and a missing URL gives String::default()
CallBuild_NoUrlCheck ==
    /\ ~moved
    /\ builder.method \in Method
    /\ req' = Request(IF builder.url[1] = "Url" THEN builder.url[2] ELSE "",
                      builder.method, builder.headers,
                      IF builder.body[1] = "Body" THEN builder.body[2] ELSE None)
    /\ moved' = TRUE
    /\ calls' = Append(calls, <<"build">>)
    /\ UNCHANGED builder

\* build(&self): the builder is borrowed and stays live
CallBuild_ByRef ==
    /\ ~moved
    /\ builder.url[1] = "Url"
    /\ builder.method \in Method
    /\ req' = Request(builder.url[2], builder.method, builder.headers,
                      IF builder.body[1] = "Body" THEN builder.body[2] ELSE None)
    /\ calls' = Append(calls, <<"build">>)
    /\ UNCHANGED <<builder, moved>>

\* the three impl blocks of build, one per body type state
CallBuild ==
    /\ ~moved
    /\ IsUrl(builder)
    /\ IsMethod(builder)
    /\ \/ IsBody(builder) /\ req' = build_Body(builder)
       \/ IsNoBody(builder) /\ req' = build_NoBody(builder)
       \/ IsMissingBody(builder) /\ req' = build_MissingBody(builder)
    /\ moved' = TRUE
    /\ calls' = Append(calls, <<"build">>)
    /\ UNCHANGED builder

Next ==
    \/ CallUrl
    \/ CallHeader
    \/ CallGet
    \/ CallPost
    \/ CallBody
    \/ CallBuild

Spec == Init /\ [][Next]_vars

----------------------------------------------------------------------------
(* Reading the call log *)

HasCall(op) == \E i \in DOMAIN calls : calls[i][1] = op

\* a call of op1 comes before a call of op2
Before(op1, op2) ==
    \E i, j \in DOMAIN calls : i < j /\ calls[i][1] = op1 /\ calls[j][1] = op2

Built == req # NoRequest
Produced == req[2]

\* the argument of the most recent url() call
LastUrlArg ==
    LET I == {i \in DOMAIN calls : calls[i][1] = "url"}
        last == CHOOSE i \in I : \A j \in I : j <= i
    IN calls[last][2]

\* the argument of the body() call that follows post()
BodyArgAfterPost ==
    LET j == CHOOSE j \in DOMAIN calls :
                 calls[j][1] = "body" /\ \E i \in 1..(j - 1) : calls[i][1] = "post"
    IN calls[j][2]

RECURSIVE HeaderArgs(_)
HeaderArgs(log) ==
    IF log = <<>> THEN <<>>
    ELSE IF Head(log)[1] = "header"
         THEN <<(<<Head(log)[2], Head(log)[3]>>)>> \o HeaderArgs(Tail(log))
         ELSE HeaderArgs(Tail(log))

----------------------------------------------------------------------------
(* C1: every Request built on a chain that called get() has body None, *)
(* also when body(text) was called before get().                       *)
C1_GetBodyNone == (Built /\ HasCall("get")) => Produced.body = None

C1_Witness == Built /\ Before("body", "get") /\ Produced.body = None

(* C2: once get() has been called, body() is not offered again, whatever *)
(* url()/header() calls follow; no chain has a body() call after get().  *)
C2_NoBodyAfterGet ==
    /\ HasCall("get") => ~ENABLED CallBody
    /\ ~Before("get", "body")

C2_Witness ==
    /\ ~moved
    /\ Before("get", "url")
    /\ Before("get", "header")
    /\ ~ENABLED CallBody

(* C3: build() is offered exactly in the live states whose URL slot and  *)
(* Method slot are both set, whatever the body slot; so every Request    *)
(* produced has a URL text and a method.                                 *)
C3_BuildNeedsUrlAndMethod ==
    /\ ENABLED CallBuild <=> (~moved /\ IsUrl(builder) /\ IsMethod(builder))
    /\ Built => /\ IsUrl(builder) /\ IsMethod(builder)
                /\ HasCall("url") /\ (HasCall("get") \/ HasCall("post"))
                /\ Produced.url \in UrlTexts
                /\ Produced.method \in Method

C3_Witness ==
    /\ Built
    /\ IsMissingBody(builder)
    /\ Produced.url = "https://www.google.com"

(* C4: the Request's url is the argument of the most recent url() call,  *)
(* its method is GET when the chain called get() and POST when it called *)
(* post(); GET is never there without a get() call.                      *)
C4_UrlAndMethodMatchCalls ==
    Built => /\ Produced.url = LastUrlArg
             /\ HasCall("get") => Produced.method = GET
             /\ HasCall("post") => Produced.method = POST
             /\ Produced.method = GET => HasCall("get")

C4_Witness ==
    /\ Built
    /\ CountOp(calls, "url") = 2
    /\ \E i \in DOMAIN calls : calls[i][1] = "url" /\ calls[i][2] # LastUrlArg
    /\ Produced.method = POST

(* C5: on a chain where post() is followed by body(text), with any       *)
(* url()/header() calls around them, the Request has body Some(text).    *)
C5_PostBodySome ==
    (Built /\ Before("post", "body")) => Produced.body = Some(BodyArgAfterPost)

C5_Witness ==
    /\ Built
    /\ \E i, j, k \in DOMAIN calls :
          /\ i < j /\ j < k
          /\ calls[i][1] = "post"
          /\ calls[j][1] \in {"url", "header"}
          /\ calls[k] = <<"body", "asdf">>
    /\ Produced.body = Some("asdf")

(* C6: on a chain that called post() and never body(), the Request has  *)
(* method POST and body None.                                            *)
C6_PostNoBodyNone ==
    (Built /\ HasCall("post") /\ ~HasCall("body"))
        => (Produced.method = POST /\ Produced.body = None)

C6_Witness ==
    /\ Built
    /\ HasCall("post")
    /\ ~HasCall("body")
    /\ Produced.headers # <<>>

(* C7: the builder's headers, and the built Request's, are exactly the   *)
(* (key, value) arguments of the header() calls, in call order, one      *)
(* entry per call, a repeated key giving a further entry; header() is    *)
(* offered in every live state, whatever the URL, Method and Body slots. *)
C7_HeadersAreHeaderCalls ==
    /\ builder.headers = HeaderArgs(calls)
    /\ Len(builder.headers) = CountOp(calls, "header")
    /\ Built => Produced.headers = HeaderArgs(calls)
    /\ (~moved /\ CountOp(calls, "header") < MaxHeaders) => ENABLED CallHeader

C7_Witness ==
    /\ Built
    /\ Len(Produced.headers) = 2
    /\ Produced.headers[1][1] = Produced.headers[2][1]

\* the well-formed values: no slot and no result holds an error value
UrlStates == {MissingUrl} \cup {Url(u) : u \in UrlTexts}
MethodStates == {MissingMethod} \cup Method
BodyStates == {MissingBody, NoBody} \cup {Body(Some(b)) : b \in BodyTexts}
HeaderPairs == {<<k, v>> : k \in HeaderKeys, v \in HeaderValues}

IsBuilder(b) ==
    /\ b.url \in UrlStates
    /\ b.method \in MethodStates
    /\ b.body \in BodyStates
    /\ \A i \in DOMAIN b.headers : b.headers[i] \in HeaderPairs

IsRequest(r) ==
    /\ r[1] = "Request"
    /\ r[2].url \in UrlTexts
    /\ r[2].method \in Method
    /\ r[2].body \in {None} \cup {Some(b) : b \in BodyTexts}
    /\ \A i \in DOMAIN r[2].headers : r[2].headers[i] \in HeaderPairs

(* C8: no call has a failure outcome: every call made returned a         *)
(* builder, or a Request for build, never an error value; a call that is *)
(* not legal in a type state is not offered there.                       *)
C8_NoRuntimeFailure ==
    /\ IsBuilder(builder)
    /\ req = NoRequest \/ IsRequest(req)
    /\ HasCall("build") <=> Built
    /\ ENABLED CallBody => IsMissingBody(builder)
    /\ ENABLED CallGet => IsMissingMethod(builder)
    /\ ENABLED CallPost => IsMissingMethod(builder)
    /\ ENABLED CallBuild => (IsUrl(builder) /\ IsMethod(builder))

C8_Witness ==
    /\ Built
    /\ IsRequest(req)
    /\ HasCall("get")
    /\ HasCall("body")
    /\ Len(calls) = 2 + MaxHeaders + MaxUrlCalls + 1

(* C9: after build() no call is offered on the builder, so a builder     *)
(* gives at most one Request.                                            *)
C9_SingleUse ==
    /\ Built => /\ ~ENABLED CallUrl
                /\ ~ENABLED CallHeader
                /\ ~ENABLED CallGet
                /\ ~ENABLED CallPost
                /\ ~ENABLED CallBody
                /\ ~ENABLED CallBuild
    /\ CountOp(calls, "build") <= 1

C9_Witness ==
    /\ Built
    /\ CountOp(calls, "build") = 1
    /\ CountOp(calls, "url") < MaxUrlCalls
    /\ CountOp(calls, "header") < MaxHeaders
    /\ IsMissingBody(builder)

(* C10: get() and post() are offered only while the Method slot is       *)
(* missing; a chain has at most one method call; a set Method slot keeps *)
(* its value in every later state.                                       *)
C10_MethodSetOnce ==
    /\ [](/\ ENABLED CallGet => IsMissingMethod(builder)
          /\ ENABLED CallPost => IsMissingMethod(builder)
          /\ CountOp(calls, "get") + CountOp(calls, "post") <= 1)
    /\ [][IsMethod(builder) => builder'.method = builder.method]_vars

C10_Witness ==
    /\ IsMethod(builder)
    /\ ~moved
    /\ ~ENABLED CallGet
    /\ ~ENABLED CallPost
    /\ Len(calls) >= 3

\* the most recent call, once the log is not empty
LastCall == calls[Len(calls)]

\* the step just taken was a call of op
JustCalled(op) == calls' # calls /\ calls'[Len(calls')][1] = op

(* C11: body() is offered exactly while the builder is live and its Body *)
(* slot is missing, whatever the URL and Method slots; a chain has at    *)
(* most one body() call, so a set body text is never overwritten by a    *)
(* later body() call.                                                    *)
C11_BodyOnlyWhileMissing ==
    /\ ENABLED CallBody <=> (~moved /\ IsMissingBody(builder))
    /\ CountOp(calls, "body") <= 1
    /\ IsBody(builder) => \E i \in DOMAIN calls : calls[i] = <<"body", builder.body[2][2]>>

C11_Witness ==
    /\ ~moved
    /\ ~IsUrl(builder)
    /\ IsMissingMethod(builder)
    /\ IsBody(builder)
    /\ ~ENABLED CallBody

(* C12, as claimed: every Request produced has a non-empty url text.     *)
C12_UrlNonEmpty == Built => Produced.url # ""

(* C12, amended: every Request produced comes from a chain with a url()  *)
(* call and holds the text of the builder's URL slot unchanged; that     *)
(* text is empty exactly when the last url() argument was empty.         *)
C12_UrlIsUrlSlotText ==
    Built => /\ HasCall("url")
             /\ IsUrl(builder)
             /\ Produced.url = builder.url[2]
             /\ Produced.url = "" <=> LastUrlArg = ""

C12_Witness ==
    /\ Built
    /\ Produced.url = ""
    /\ calls[1] = <<"url", "https://www.google.com">>

(* C13, as claimed: while the Method slot is missing the Body slot is    *)
(* missing, and right after post() the Body slot is missing.             *)
C13_BodyMissingUntilMethod ==
    /\ IsMissingMethod(builder) => IsMissingBody(builder)
    /\ (calls # <<>> /\ LastCall = <<"post">>) => IsMissingBody(builder)

(* C13, amended: while the Method slot is missing the Body slot is       *)
(* missing or set, never NoBody, and it is set exactly when body() has   *)
(* been called; right after post() the Body slot is set when body() was  *)
(* called before post() and missing otherwise.                           *)
C13_BodyBeforeMethod ==
    /\ IsMissingMethod(builder) =>
          /\ ~IsNoBody(builder)
          /\ IsBody(builder) <=> HasCall("body")
    /\ (calls # <<>> /\ LastCall = <<"post">>) =>
          /\ ~IsNoBody(builder)
          /\ IsBody(builder) <=> HasCall("body")
          /\ IsMissingBody(builder) <=> ~HasCall("body")

C13_Witness ==
    /\ calls # <<>>
    /\ LastCall = <<"post">>
    /\ builder.body = Body(Some("asdf"))

(* C14: url(text) is offered in every live state, also when the URL slot *)
(* is already set; it sets the URL slot to Url(text) and leaves the      *)
(* Method slot, the Body slot and the headers as they were.              *)
C14_UrlFrame ==
    /\ [](( ~moved /\ CountOp(calls, "url") < MaxUrlCalls) => ENABLED CallUrl)
    /\ [][JustCalled("url") =>
            builder' = [builder EXCEPT !.url = Url(calls'[Len(calls')][2])]]_vars

C14_Witness ==
    /\ ~moved
    /\ CountOp(calls, "url") = 2
    /\ LastCall[1] = "url"
    /\ calls[1][1] = "url"
    /\ calls[1][2] # LastCall[2]
    /\ IsMethod(builder)
    /\ IsBody(builder)
    /\ Len(builder.headers) = 2

(* C15: post() changes the Method slot alone: the URL slot, the headers *)
(* and the Body slot are carried through, so a body text set before      *)
(* post() is still there after it, and body(text), post(), build(), with *)
(* url() anywhere, gives body Some(text).                                *)
C15_PostFrame ==
    /\ [][JustCalled("post") => builder' = [builder EXCEPT !.method = POST]]_vars
    /\ []((Built /\ Before("body", "post")) =>
            \E i \in DOMAIN calls :
                calls[i][1] = "body" /\ Produced.body = Some(calls[i][2]))

C15_Witness ==
    /\ Built
    /\ Before("body", "post")
    /\ Produced.body = Some("asdf")
    /\ Produced.method = POST

(* C16: header(key, value) extends the headers by that one entry at the  *)
(* end and leaves the URL, Method and Body slots, hence the offered      *)
(* calls, as they were; url(), get(), post() and body() leave the        *)
(* headers as they were.                                                 *)
C16_HeaderFrame ==
    /\ [][JustCalled("header") =>
            builder' = [builder EXCEPT !.headers =
                Append(@, <<calls'[Len(calls')][2], calls'[Len(calls')][3]>>)]]_vars
    /\ [][JustCalled("header") =>
            /\ (ENABLED CallUrl)' <=> ENABLED CallUrl
            /\ (ENABLED CallGet)' <=> ENABLED CallGet
            /\ (ENABLED CallPost)' <=> ENABLED CallPost
            /\ (ENABLED CallBody)' <=> ENABLED CallBody
            /\ (ENABLED CallBuild)' <=> ENABLED CallBuild]_vars
    /\ [][(JustCalled("url") \/ JustCalled("get") \/ JustCalled("post")
             \/ JustCalled("body")) => builder'.headers = builder.headers]_vars

C16_Witness ==
    /\ ~moved
    /\ calls # <<>>
    /\ LastCall[1] = "header"
    /\ Len(builder.headers) = 2
    /\ builder.headers[1] # builder.headers[2]
    /\ IsUrl(builder)
    /\ IsMethod(builder)
    /\ IsBody(builder)

(* C17: in every builder state the Body slot is NoBody exactly when the  *)
(* Method slot is GET; so a GET Request is built by the NoBody build     *)
(* alone, and the Body and MissingBody builds give POST.                 *)
C17_NoBodyIffGet ==
    /\ IsNoBody(builder) <=> builder.method = GET
    /\ Built => /\ IsNoBody(builder) <=> Produced.method = GET
                /\ (IsBody(builder) \/ IsMissingBody(builder)) <=> Produced.method = POST

C17_Witness ==
    /\ Built
    /\ Before("body", "get")
    /\ IsNoBody(builder)
    /\ Produced.method = GET

\* the builders one call away from b that bring build nearer
Towards(b) ==
    {url(b, u) : u \in UrlTexts}
        \cup (IF IsMissingMethod(b) THEN {get(b), post(b)} ELSE {})

\* build is callable on b
Buildable(b) == IsUrl(b) /\ IsMethod(b)

\* build is callable on b after at most two further calls
BuildableWithinTwo(b) ==
    \E b1 \in {b} \cup Towards(b) : \E b2 \in {b1} \cup Towards(b1) : Buildable(b2)

(* C18: no live state is a dead end: url() is offered, get() and post()  *)
(* are offered while the Method slot is missing, and a state where       *)
(* build() is offered is at most two calls away.                         *)
C18_NoDeadEnd ==
    ~moved =>
        /\ CountOp(calls, "url") < MaxUrlCalls => ENABLED CallUrl
        /\ ~IsUrl(builder) => ENABLED CallUrl
        /\ IsMissingMethod(builder) => (ENABLED CallGet /\ ENABLED CallPost)
        /\ BuildableWithinTwo(builder)
        /\ Buildable(builder) => ENABLED CallBuild

C18_Witness ==
    /\ ~moved
    /\ ~IsUrl(builder)
    /\ IsMissingMethod(builder)
    /\ IsBody(builder)
    /\ Len(builder.headers) = MaxHeaders
    /\ ~Buildable(builder)
    /\ \A b1 \in Towards(builder) : ~Buildable(b1)

\* the Request that the calls of a chain stand for, read from what the
\* chain called and not from where in the chain it called it
RequestOfCalls ==
    Request(LastUrlArg,
            IF HasCall("get") THEN GET ELSE POST,
            HeaderArgs(calls),
            IF HasCall("get") \/ ~HasCall("body") THEN None
            ELSE LET i == CHOOSE i \in DOMAIN calls : calls[i][1] = "body"
                 IN Some(calls[i][2]))

(* C19: the Request built depends on the last url() argument, on which   *)
(* method call was made, on the header() calls in their order and on the *)
(* body() call, not on where url() and the method call sit in the chain: *)
(* two chains that agree on these build equal Requests.                  *)
C19_OrderIndependent == Built => req = RequestOfCalls

C19_Witness ==
    /\ Built
    /\ Before("get", "url")
    /\ Before("url", "get")
    /\ Before("header", "get")
    /\ Before("get", "header")

====
